---- MODULE Spec2Model ----
(***************************************************************************)
(* Model of stacks/BIGTOP/3.2.0/services/KAFKA/package/scripts/            *)
(* service_check.py: the ServiceCheck script with its service_check hook   *)
(* and its read_kafka_config property-file reader.                         *)
(*                                                                         *)
(* A text is a sequence of one-character strings.  A dict is a function    *)
(* whose domain is its key set.  ret is <<>> while no dict has been handed *)
(* to the caller and <<d>> once d has been returned.  prev is a history    *)
(* variable: whether the dict of the call before this one had entries.     *)
(***************************************************************************)
EXTENDS Naturals, Sequences, FiniteSets

VARIABLES pc, content, lines, i, kafka_config, ret, exc, readErr, prev,
          scEnv, scRet

vars == <<pc, content, lines, i, kafka_config, ret, exc, readErr, prev,
         scEnv, scRet>>

readerVars == <<pc, content, lines, i, kafka_config, ret, exc, readErr, prev>>

(***************************************************************************)
(* Bounds of the model.                                                    *)
(***************************************************************************)
MaxLen == 5

Chars == {"a", "=", "#", " ", "\n", "\r"}

Envs == {"env1", "env2"}

IOErrors == {"ENOENT", "EACCES"}

Contents == UNION {[1..n -> Chars] : n \in 0..MaxLen}

(***************************************************************************)
(* Python built-ins used by the script.                                    *)
(***************************************************************************)
Whitespace == {" ", "\t", "\n", "\r", "\f"}

\* the line boundaries of splitlines() that occur in Chars
LineBreaks == {"\n", "\r"}

EmptyDict == [k \in {} |-> <<>>]

Tail2(s, k) == SubSeq(s, k, Len(s))

\* str.splitlines(): cut at "\n", "\r" and "\r\n" (one boundary); the line
\* ends are dropped and a final line end opens no extra empty line.
RECURSIVE SplitFrom(_, _, _)
SplitFrom(s, start, j) ==
  IF j > Len(s)
  THEN IF start > Len(s) THEN <<>> ELSE <<SubSeq(s, start, Len(s))>>
  ELSE IF s[j] \in LineBreaks
       THEN LET nxt == IF s[j] = "\r" /\ j + 1 <= Len(s) /\ s[j + 1] = "\n"
                       THEN j + 2 ELSE j + 1
            IN  <<SubSeq(s, start, j - 1)>> \o SplitFrom(s, nxt, nxt)
       ELSE SplitFrom(s, start, j + 1)

splitlines(s) == SplitFrom(s, 1, 1)

\* a prefix test that looks for the prefix anywhere in the line
startswith_anywhere(s, prefix) ==
  \E k \in 1..Len(s) : k + Len(prefix) - 1 <= Len(s)
                       /\ SubSeq(s, k, k + Len(prefix) - 1) = prefix

\* str.startswith(prefix)
startswith(s, prefix) ==
  Len(prefix) <= Len(s) /\ SubSeq(s, 1, Len(prefix)) = prefix

RECURSIVE lstrip(_)
lstrip(s) ==
  IF s # <<>> /\ Head(s) \in Whitespace THEN lstrip(Tail(s)) ELSE s

RECURSIVE rstrip(_)
rstrip(s) ==
  IF s # <<>> /\ s[Len(s)] \in Whitespace
  THEN rstrip(SubSeq(s, 1, Len(s) - 1)) ELSE s

\* a strip that leaves the line as it is
strip_nothing(s) == s

\* str.strip(): drop the whitespace at both ends
strip(s) == rstrip(lstrip(s))

\* str.split(sep, 1): cut at the first separator only
split_maxsplit1(s, sep) ==
  IF \E k \in 1..Len(s) : s[k] = sep
  THEN LET k == CHOOSE k \in 1..Len(s) :
                  s[k] = sep /\ \A m \in 1..(k - 1) : s[m] # sep
       IN  <<SubSeq(s, 1, k - 1), Tail2(s, k + 1)>>
  ELSE <<s>>

\* str.split(sep) for a one-character separator: cut at EVERY separator
RECURSIVE split(_, _)
split(s, sep) ==
  IF \E k \in 1..Len(s) : s[k] = sep
  THEN LET k == CHOOSE k \in 1..Len(s) :
                  s[k] = sep /\ \A m \in 1..(k - 1) : s[m] # sep
       IN  <<SubSeq(s, 1, k - 1)>> \o split(Tail2(s, k + 1), sep)
  ELSE <<s>>

\* a replace that trims the value instead
replace_as_strip(s, old, new) == strip(s)

\* str.replace(old, new) for a one-character old
RECURSIVE replace(_, _, _)
replace(s, old, new) ==
  IF s = <<>> THEN <<>>
  ELSE (IF Head(s) = old THEN new ELSE <<Head(s)>>) \o replace(Tail(s), old, new)

\* a store that keeps the value already present (dict.setdefault)
setitem_keep_first(d, k, v) ==
  [x \in DOMAIN d \cup {k} |-> IF x \in DOMAIN d THEN d[x] ELSE v]

\* d[k] = v
setitem(d, k, v) ==
  [x \in DOMAIN d \cup {k} |-> IF x = k THEN v ELSE d[x]]

\* an unpacking that takes the first two parts of a longer list
unpack_fails_lenient(parts) == Len(parts) < 2

\* "key, value = parts" raises ValueError unless parts has exactly two items
unpack_fails(parts) == Len(parts) # 2

(***************************************************************************)
(* ServiceCheck.service_check                                              *)
(***************************************************************************)
\* a hook whose answer depends on the context it is given
service_check_by_env(env) == IF env = "env1" THEN "True" ELSE "False"

service_check_result(env) == "True"

service_check(env) ==
  /\ scEnv' = env
  /\ scRet' = service_check_result(env)
  /\ UNCHANGED readerVars

(***************************************************************************)
(* ServiceCheck.read_kafka_config                                          *)
(***************************************************************************)
\* a dict that lives across calls (class attribute, mutable default)
new_kafka_config_shared(old) == old

\* kafka_config = {}
new_kafka_config(old) == EmptyDict

\* an exception handler that swallows the error and carries on
raise_swallowed(e) == "none"

\* no try/except anywhere in the method: an exception leaves it as it is
raise(e) == e

\* a body that trims key and value before storing them
loop_body_trimmed(line, cfg) ==
  IF startswith(line, <<"#">>) \/ strip(line) = <<>>
  THEN [exc |-> "none", cfg |-> cfg]
  ELSE LET parts == split(line, "=")
       IN  IF unpack_fails(parts)
           THEN [exc |-> raise("ValueError"), cfg |-> cfg]
           ELSE [exc |-> "none",
                 cfg |-> setitem(cfg, strip(parts[1]), strip(parts[2]))]

\* one pass of the for loop over one line
loop_body(line, cfg) ==
  IF startswith(line, <<"#">>) \/ strip(line) = <<>>
  THEN [exc |-> "none", cfg |-> cfg]
  ELSE LET parts == split(line, "=")
       IN  IF unpack_fails(parts)
           THEN [exc |-> raise("ValueError"), cfg |-> cfg]
           ELSE [exc |-> "none",
                 cfg |-> setitem(cfg, parts[1],
                                 replace(parts[2], "\n", <<>>))]

\* the for loop and the return, run to the end from line j with dict cfg
RECURSIVE read_loop(_, _, _)
read_loop(ls, j, cfg) ==
  IF j > Len(ls) THEN [exc |-> "none", ret |-> <<cfg>>]
  ELSE LET r == loop_body(ls[j], cfg)
       IN  IF r.exc # "none" THEN [exc |-> r.exc, ret |-> <<>>]
           ELSE read_loop(ls, j + 1, r.cfg)

\* sudo.read_file(path): the text of the file, or an I/O error
read_file_outcomes ==
  [ok : {TRUE}, text : Contents, err : {"none"}]
    \cup [ok : {FALSE}, text : {<<>>}, err : IOErrors]

\* entry of the method: the locals are unbound, then kafka_config = {}
Enter ==
  /\ pc \in {"idle", "returned", "raised"}
  /\ pc' = "read"
  /\ kafka_config' = new_kafka_config(kafka_config)
  /\ content' = <<>>
  /\ lines' = <<>>
  /\ i' = 1
  /\ ret' = <<>>
  /\ exc' = "none"
  /\ readErr' = "none"
  /\ prev' = IF kafka_config = EmptyDict THEN "empty" ELSE "filled"
  /\ UNCHANGED <<scEnv, scRet>>

\* content = sudo.read_file(...) and content.splitlines()
Read ==
  /\ pc = "read"
  /\ \E r \in read_file_outcomes :
       /\ readErr' = r.err
       /\ IF r.ok
          THEN /\ content' = r.text
               /\ lines' = splitlines(r.text)
               /\ exc' = "none"
               /\ pc' = "loop"
          ELSE /\ UNCHANGED <<content, lines>>
               /\ exc' = raise(r.err)
               /\ pc' = IF raise(r.err) = "none" THEN "loop" ELSE "raised"
  /\ UNCHANGED <<i, kafka_config, ret, prev, scEnv, scRet>>

\* one iteration of the loop
Step ==
  /\ pc = "loop"
  /\ i <= Len(lines)
  /\ LET r == loop_body(lines[i], kafka_config)
     IN  IF r.exc # "none"
         THEN /\ pc' = "raised"
              /\ exc' = r.exc
              /\ UNCHANGED <<i, kafka_config>>
         ELSE /\ kafka_config' = r.cfg
              /\ i' = i + 1
              /\ UNCHANGED <<pc, exc>>
  /\ UNCHANGED <<content, lines, ret, readErr, prev, scEnv, scRet>>

\* return kafka_config
Return ==
  /\ pc = "loop"
  /\ i > Len(lines)
  /\ pc' = "returned"
  /\ ret' = <<kafka_config>>
  /\ UNCHANGED <<content, lines, i, kafka_config, exc, readErr, prev, scEnv,
               scRet>>

ServiceCheck == \E env \in Envs : service_check(env)

Init ==
  /\ pc = "idle"
  /\ content = <<>>
  /\ lines = <<>>
  /\ i = 1
  /\ kafka_config = EmptyDict
  /\ ret = <<>>
  /\ exc = "none"
  /\ readErr = "none"
  /\ prev = "none"
  /\ scEnv = "none"
  /\ scRet = "none"

Next == Enter \/ Read \/ Step \/ Return \/ ServiceCheck

Spec == Init /\ [][Next]_vars

TypeOK ==
  /\ pc \in {"idle", "read", "loop", "returned", "raised"}
  /\ content \in Contents
  /\ i \in 1..(Len(lines) + 1)
  /\ Len(ret) <= 1
  /\ exc \in {"none", "ValueError"} \cup IOErrors
  /\ readErr \in {"none"} \cup IOErrors
  /\ prev \in {"none", "empty", "filled"}
  /\ scEnv \in {"none"} \cup Envs
  /\ scRet \in {"none", "True", "False"}
(***************************************************************************)
(* Vocabulary of the properties: the shape of a line of the file.          *)
(***************************************************************************)
CountEq(l) == Cardinality({k \in 1..Len(l) : l[k] = "="})

IsCommentLine(l) == Len(l) >= 1 /\ l[1] = "#"

IsBlankLine(l) == \A k \in 1..Len(l) : l[k] \in Whitespace

IsDataLine(l) == ~IsCommentLine(l) /\ ~IsBlankLine(l)

\* position of the first "=" of a line that has one
EqPos(l) == CHOOSE k \in 1..Len(l) : l[k] = "=" /\ \A m \in 1..(k - 1) : l[m] # "="

LeftOf(l) == SubSeq(l, 1, EqPos(l) - 1)

RightOf(l) == SubSeq(l, EqPos(l) + 1, Len(l))

DataIdx(ls) == {j \in 1..Len(ls) : IsDataLine(ls[j])}

WellFormed(ls) == \A j \in DataIdx(ls) : CountEq(ls[j]) = 1

LastIdx(ls, k) ==
  CHOOSE j \in DataIdx(ls) :
    /\ LeftOf(ls[j]) = k
    /\ \A m \in DataIdx(ls) : LeftOf(ls[m]) = k => m <= j

ExpectedDict(ls) ==
  [k \in {LeftOf(ls[j]) : j \in DataIdx(ls)} |-> RightOf(ls[LastIdx(ls, k)])]

DataLinesOnly(ls) == SelectSeq(ls, IsDataLine)

WithoutNewlines(v) == LET NotNewline(c) == c # "\n" IN SelectSeq(v, NotNewline)

\* a line whose first character that is not whitespace is a "#" further right
IndentedHash(l) ==
  \E k \in 2..Len(l) : l[k] = "#" /\ \A m \in 1..(k - 1) : l[m] \in Whitespace

\* the file was read and the call is over
ReadOver == pc \in {"returned", "raised"} /\ readErr = "none"

\* this step is an iteration of the loop over line i
LoopStepTaken == pc = "loop" /\ i <= Len(lines) /\ (i' # i \/ pc' # pc)

(***************************************************************************)
(* C1: on a well-formed file the call returns a dict whose keys are        *)
(* exactly the left-hand sides of the data lines and whose value for a key *)
(* is the right-hand side of the last line carrying that key.              *)
(***************************************************************************)
C1_LastOccurrenceWins ==
  (ReadOver /\ WellFormed(lines)) =>
    /\ pc = "returned"
    /\ Len(ret) = 1
    /\ DOMAIN ret[1] = {LeftOf(lines[j]) : j \in DataIdx(lines)}
    /\ ret[1] = ExpectedDict(lines)

C1_Witness ==
  /\ pc = "returned" /\ readErr = "none" /\ WellFormed(lines)
  /\ \E j, m \in DataIdx(lines) :
       /\ j < m
       /\ LeftOf(lines[j]) = LeftOf(lines[m])
       /\ RightOf(lines[j]) # RightOf(lines[m])
       /\ ret[1][LeftOf(lines[j])] = RightOf(lines[m])

(***************************************************************************)
(* C2: a data line with no "=" or with several makes the call fail: no     *)
(* dict reaches the caller, and the loop never moves past such a line.     *)
(***************************************************************************)
C2_MalformedLineFails ==
  /\ (ReadOver /\ ~WellFormed(lines)) =>
       (pc = "raised" /\ exc = "ValueError" /\ ret = <<>>)
  /\ (pc \in {"loop", "returned", "raised"} /\ readErr = "none") =>
       \A j \in 1..(i - 1) : IsDataLine(lines[j]) => CountEq(lines[j]) = 1

C2_Witness ==
  /\ pc = "raised" /\ exc = "ValueError" /\ ret = <<>>
  /\ kafka_config # EmptyDict
  /\ CountEq(lines[i]) > 1

(***************************************************************************)
(* C3: comment lines and blank lines are inert: the outcome of the call    *)
(* is the outcome of the reader on the same lines with those lines taken   *)
(* out.                                                                    *)
(***************************************************************************)
C3_SkippedLinesInert ==
  ReadOver =>
    LET r == read_loop(DataLinesOnly(lines), 1, EmptyDict)
    IN  r.exc = exc /\ r.ret = ret

C3_Witness ==
  /\ pc = "returned" /\ ret # <<EmptyDict>>
  /\ \E j \in 1..Len(lines) : IsCommentLine(lines[j])
  /\ \E j \in 1..Len(lines) : IsBlankLine(lines[j]) /\ lines[j] # <<>>

(***************************************************************************)
(* C4: every run of service_check, whatever its argument and whatever the  *)
(* state, answers True and leaves the state of the reader untouched (no    *)
(* read of the file, no step of read_kafka_config).                        *)
(***************************************************************************)
C4_ServiceCheckAlwaysTrue ==
  [][(scEnv' # scEnv \/ scRet' # scRet) =>
       (scRet' = "True" /\ UNCHANGED readerVars)]_vars

C4_Witness ==
  /\ scEnv = "env2" /\ scRet = "True"
  /\ pc = "loop" /\ i > 1

(***************************************************************************)
(* C5: when the read of the file fails, the call ends at once with that    *)
(* very error and hands no dict to the caller.                             *)
(***************************************************************************)
C5_ReadErrorPropagates ==
  readErr # "none" =>
    (pc = "raised" /\ exc = readErr /\ ret = <<>> /\ lines = <<>> /\ i = 1)

C5_Witness == pc = "raised" /\ readErr = "EACCES" /\ exc = "EACCES" /\ prev = "filled"

(***************************************************************************)
(* C6 as stated: every data line that has an "=" is cut at its first "="   *)
(* and stored, key before it and the rest of the line after it.            *)
(***************************************************************************)
C6_SplitAtFirstEq ==
  [][(LoopStepTaken /\ IsDataLine(lines[i]) /\ CountEq(lines[i]) >= 1) =>
       /\ pc' = "loop"
       /\ LeftOf(lines[i]) \in DOMAIN kafka_config'
       /\ kafka_config'[LeftOf(lines[i])] = RightOf(lines[i])]_vars

(***************************************************************************)
(* C6 amended: a data line with exactly one "=" is cut there and stored,   *)
(* key before it and value after it; a data line with several "=" is not   *)
(* cut at the first one: it stores nothing and ends the call in an error.  *)
(***************************************************************************)
C6_SplitAtOnlyEq ==
  [][(LoopStepTaken /\ IsDataLine(lines[i]) /\ CountEq(lines[i]) >= 1) =>
       IF CountEq(lines[i]) = 1
       THEN /\ pc' = "loop"
            /\ LeftOf(lines[i]) \in DOMAIN kafka_config'
            /\ kafka_config'[LeftOf(lines[i])] = RightOf(lines[i])
       ELSE /\ pc' = "raised"
            /\ exc' = "ValueError"
            /\ kafka_config' = kafka_config]_vars

C6_Witness ==
  /\ pc = "raised" /\ exc = "ValueError"
  /\ CountEq(lines[i]) >= 2
  /\ i > 1 /\ IsDataLine(lines[i - 1])
  /\ LeftOf(lines[i - 1]) \in DOMAIN kafka_config

(***************************************************************************)
(* C7: a call starts from an empty dict and its outcome is a function of   *)
(* the content it read alone, whatever the calls before it did.            *)
(***************************************************************************)
C7_CallsIndependent ==
  /\ pc = "read" => kafka_config = EmptyDict
  /\ (pc = "loop" /\ readErr = "none") =>
       read_loop(SubSeq(lines, 1, i - 1), 1, EmptyDict).ret = <<kafka_config>>
  /\ ReadOver =>
       LET r == read_loop(splitlines(content), 1, EmptyDict)
       IN  r.exc = exc /\ r.ret = ret

C7_Witness ==
  /\ prev = "filled"
  /\ pc = "returned" /\ readErr = "none"
  /\ content = <<>> /\ ret = <<EmptyDict>>

(***************************************************************************)
(* C8: no value of the dict holds a newline; the value under a key is the  *)
(* right-hand side, newlines removed, of the last line read so far that    *)
(* carries the key.                                                        *)
(***************************************************************************)
C8_NoNewlineInValues ==
  /\ \A k \in DOMAIN kafka_config :
       /\ \A n \in 1..Len(kafka_config[k]) : kafka_config[k][n] # "\n"
       /\ \E j \in 1..(i - 1) :
            /\ IsDataLine(lines[j]) /\ LeftOf(lines[j]) = k
            /\ kafka_config[k] = WithoutNewlines(RightOf(lines[j]))
            /\ \A m \in (j + 1)..(i - 1) :
                 IsDataLine(lines[m]) => LeftOf(lines[m]) # k
  /\ ret # <<>> => ret = <<kafka_config>>

C8_Witness ==
  /\ pc = "loop" /\ i > 2
  /\ \E j, m \in 1..(i - 1) :
       /\ j < m /\ IsDataLine(lines[j]) /\ IsDataLine(lines[m])
       /\ LeftOf(lines[j]) = LeftOf(lines[m])
       /\ RightOf(lines[j]) # RightOf(lines[m])
       /\ kafka_config[LeftOf(lines[m])] = RightOf(lines[m])

(***************************************************************************)
(* C9: a line whose "#" comes after leading whitespace is not skipped: it  *)
(* is read as a data line, so it either ends the call in an error (no "="  *)
(* or several) or stores an entry whose key starts with that whitespace    *)
(* and the "#".                                                            *)
(***************************************************************************)
C9_IndentedHashIsData ==
  [][(LoopStepTaken /\ IndentedHash(lines[i])) =>
       IF CountEq(lines[i]) = 1
       THEN /\ pc' = "loop"
            /\ LeftOf(lines[i]) \in DOMAIN kafka_config'
            /\ IndentedHash(LeftOf(lines[i]))
       ELSE /\ pc' = "raised"
            /\ exc' = "ValueError"]_vars

C9_Witness ==
  /\ pc = "returned" /\ Len(lines) >= 1
  /\ \E j \in 1..Len(lines) :
       /\ IndentedHash(lines[j]) /\ CountEq(lines[j]) = 1
       /\ LeftOf(lines[j]) \in DOMAIN ret[1]

(***************************************************************************)
(* C10: keys and values are stored untrimmed: every entry, put back        *)
(* together as key, "=", value, is character for character a line of the   *)
(* file, every data line has its untrimmed left-hand side as a key, and no *)
(* key or value holds an "=".                                              *)
(***************************************************************************)
C10_StoredVerbatim ==
  (pc = "returned" /\ readErr = "none") =>
    /\ \A k \in DOMAIN ret[1] :
         /\ \A n \in 1..Len(k) : k[n] # "="
         /\ \A n \in 1..Len(ret[1][k]) : ret[1][k][n] # "="
         /\ \E j \in 1..Len(lines) : lines[j] = k \o <<"=">> \o ret[1][k]
    /\ \A j \in DataIdx(lines) :
         \E k \in DOMAIN ret[1] :
           Len(k) < Len(lines[j]) /\ SubSeq(lines[j], 1, Len(k) + 1) = k \o <<"=">>

C10_Witness ==
  /\ pc = "returned" /\ readErr = "none"
  /\ lines = << <<"a", " ", "=", " ", "a">> >>
  /\ DOMAIN ret[1] = {<<"a", " ">>}
  /\ ret[1][<<"a", " ">>] = <<" ", "a">>
====
